---- MODULE Spec2Model ----
(***************************************************************************)
(* Model of the infection propagation hook usePlagueInfection              *)
(* (src/src/hooks/usePlagueInfection.js).                                  *)
(*                                                                         *)
(* The hook is a React function component hook.  Its state cells           *)
(* (useState), its refs (useRef) and the interval timers its effects       *)
(* create are the variables below.  Every public operation and every       *)
(* interval callback is one action; the action includes the commit that    *)
(* follows it: the cleanup of every effect whose dependencies changed and  *)
(* then the re-run of those effects (which is where interval timers are    *)
(* cleared and created).                                                   *)
(*                                                                         *)
(* Numbers: times are integer milliseconds.  A progress value p of the     *)
(* program is represented by the integer p * ONE (fixed point); ratios     *)
(* and multipliers are represented in thousandths (Milli).                 *)
(* Strings (entity names, seeds, pair keys) are sequences of one-character *)
(* strings; Alphabet lists the characters in UTF-16 code unit order.       *)
(***************************************************************************)
EXTENDS Integers, Sequences, FiniteSets, TLC

\* ------------------------------------------------------------------------
\* Bounds of the model
\* ------------------------------------------------------------------------
MaxTime == 20001

MaxTimers == 4

ClockSteps == {10000, 20000}

\* ------------------------------------------------------------------------
\* Fixed-point units and null
\* ------------------------------------------------------------------------
ONE == 20000

Milli == 1000

Null == 0

Min(a, b) == IF a < b THEN a ELSE b

Max(a, b) == IF a > b THEN a ELSE b

\* a / b rounded towards minus infinity, for a divisor of either sign
Div(a, b) == IF b > 0 THEN a \div b ELSE (0 - a) \div (0 - b)

\* ------------------------------------------------------------------------
\* Strings
\* ------------------------------------------------------------------------
Alphabet == <<"-", "A", "B", "C", "a", "b", "c", "z">>

Ord(c) == CHOOSE i \in DOMAIN Alphabet : Alphabet[i] = c

LowerChar(c) ==
  CASE c = "A" -> "a"
    [] c = "B" -> "b"
    [] c = "C" -> "c"
    [] OTHER -> c

toLowerCase(s) == [i \in DOMAIN s |-> LowerChar(s[i])]

\* String.prototype.includes
includes(s, sub) ==
  \E off \in 0..(Len(s) - Len(sub)) :
    \A i \in 1..Len(sub) : s[off + i] = sub[i]

\* s < t in the default sort order of Array.prototype.sort (code units)
StrLess(s, t) ==
  \/ /\ Len(s) < Len(t)
     /\ \A i \in 1..Len(s) : s[i] = t[i]
  \/ \E k \in 1..Min(Len(s), Len(t)) :
       /\ \A i \in 1..(k - 1) : s[i] = t[i]
       /\ Ord(s[k]) < Ord(t[k])

getPairKey(country1, country2) ==
  IF StrLess(country2, country1)
    THEN country2 \o <<"-">> \o country1
    ELSE country1 \o <<"-">> \o country2

\* ------------------------------------------------------------------------
\* Geography supplied by the loader (output of extractCountryData and
\* findNeighbors): a roster in load order and a per-entity neighbour list.
\* The adjacency is asymmetric: Ca lists b and b lists Ca, but Ab lists c
\* while c, which has an empty list, does not list Ab.
\* Ab and Ca are farther apart than longDistanceMinDistance; Ab and c are
\* exactly longDistanceMinDistance apart; every other pair is nearer.
\* ------------------------------------------------------------------------
Roster ==
  << [name |-> <<"A", "b">>, centroid |-> [lat |-> 0, lon |-> 0]],
     [name |-> <<"b">>,      centroid |-> [lat |-> 0, lon |-> 28]],
     [name |-> <<"C", "a">>, centroid |-> [lat |-> 0, lon |-> 56]],
     [name |-> <<"c">>,      centroid |-> [lat |-> 30, lon |-> 40]] >>

Names == {Roster[i].name : i \in DOMAIN Roster}

Adjacency ==
  [n \in Names |->
     CASE n = <<"A", "b">> -> << [name |-> <<"b">>, distance |-> 28],
                                [name |-> <<"c">>, distance |-> 50] >>
       [] n = <<"b">>      -> << [name |-> <<"A", "b">>, distance |-> 28],
                                [name |-> <<"C", "a">>, distance |-> 28] >>
       [] n = <<"C", "a">> -> << [name |-> <<"b">>, distance |-> 28] >>
       [] n = <<"c">>      -> << >>]

\* the value null passed where a seed name is expected (not a string)
NullSeed == << "null" >>

\* Seeds passed to startInfection
Seeds == { <<"B">>, <<"a">>, <<"C", "A">>, <<"z">>, NullSeed }

\* Names passed to getCountryCentroid
Lookups == { <<"b">> }

\* ------------------------------------------------------------------------
\* Configuration (usePlagueInfection config defaults)
\* ------------------------------------------------------------------------
TotalInfectionTimes == {12000, 24000, 36000, 72000, 180000}

neighborSpreadThreshold == 10000

maxSpreadPerInterval == 3

longDistanceProbability == 400

longDistanceMinDistance == 50

neighborTransitDelay == 2500

longDistanceTransitDelay == 4000

regressionDuration == 20000

regressionStagger == 30

VARIABLES
  totalInfectionTime,      \* config.totalInfectionTime
  now,                     \* Date.now()
  infectedCountries,       \* object as a sequence of entries in key order
  transmissions,
  connectedPairs,          \* connectedPairsRef.current
  isRunning,
  isRegressing,
  regressionComplete,
  stats,
  countries,
  neighbors,
  geoDataLoaded,
  timers,                  \* live intervals: kind of callback -> how many
  progressTimerRef,
  neighborSpreadTimerRef,
  longDistanceTimerRef,
  infectionStartTimeRef,
  regressionStartTimeRef,
  lastCall,                \* history: the last operation, argument, result
  seedName,                \* history: the seed of the current run, if any
  healed                   \* history: a record was deleted since the run began

vars ==
  << totalInfectionTime, now, infectedCountries, transmissions,
     connectedPairs, isRunning, isRegressing, regressionComplete, stats,
     countries, neighbors, geoDataLoaded, timers, progressTimerRef,
     neighborSpreadTimerRef, longDistanceTimerRef, infectionStartTimeRef,
     regressionStartTimeRef, lastCall, seedName, healed >>

geoVars == << countries, neighbors, geoDataLoaded >>

historyVars == << seedName, healed >>

\* the empty string: no seed
NoName == <<>>

Call(op, arg, ret) == [op |-> op, arg |-> arg, ret |-> ret]

\* ------------------------------------------------------------------------
\* The infection map: a JavaScript object, i.e. entries in insertion order
\* ------------------------------------------------------------------------
Keys(m) == {m[i].name : i \in DOMAIN m}

Has(m, n) == \E i \in DOMAIN m : m[i].name = n

Get(m, n) == m[CHOOSE i \in DOMAIN m : m[i].name = n]

Put(m, rec) ==
  IF Has(m, rec.name)
    THEN [i \in DOMAIN m |-> IF m[i].name = rec.name THEN rec ELSE m[i]]
    ELSE Append(m, rec)

Entry(country, progress, startTime) ==
  [name |-> country.name, centroid |-> country.centroid,
   progress |-> progress, startTime |-> startTime,
   entryPoint |-> country.centroid]

\* faulty variant: the new edges are put in front of the log
PrependTransmissions(trans, newTransmissions) == newTransmissions \o trans

\* [...trans, ...newTransmissions]
AppendTransmissions(trans, newTransmissions) == trans \o newTransmissions

\* faulty variant: only the records that have begun to grow are counted
InfectedCountStarted(updated) ==
  Cardinality({i \in DOMAIN updated : updated[i].progress > 0})

\* Object.keys(updated).length, the value the ticks store in stats.infected
InfectedCount(updated) == Len(updated)

\* ------------------------------------------------------------------------
\* Interval timers and effects
\* ------------------------------------------------------------------------
\* Interval ids are opaque handles, so the live intervals are kept as the
\* number of live intervals per callback, and a timer ref holds the kind of
\* the live interval whose id it stores, or NoTimer when it stores null or
\* the id of an interval that has been cleared (clearInterval treats both
\* alike).  An interval that no ref designates can no longer be cleared.
TimerKinds == {"progress", "regression", "neighborSpread", "longDistance"}

NoTimer == "null"

\* the timer part of the state, threaded through a commit
TimerState == [timers |-> timers, p |-> progressTimerRef,
               n |-> neighborSpreadTimerRef, l |-> longDistanceTimerRef]

RefValue(ts, ref) ==
  CASE ref = "p" -> ts.p
    [] ref = "n" -> ts.n
    [] ref = "l" -> ts.l

\* ref.current = setInterval(callback of this kind, period)
setInterval(ts, ref, kind) ==
  LET tm == [ts.timers EXCEPT ![kind] = @ + 1]
  IN CASE ref = "p" -> [ts EXCEPT !.timers = tm, !.p = kind]
       [] ref = "n" -> [ts EXCEPT !.timers = tm, !.n = kind]
       [] ref = "l" -> [ts EXCEPT !.timers = tm, !.l = kind]

\* if (ref.current) clearInterval(ref.current)
clearInterval(ts, ref) ==
  LET kind == RefValue(ts, ref)
      tm == [ts.timers EXCEPT ![kind] = @ - 1]
  IN IF kind = NoTimer THEN ts
     ELSE CASE ref = "p" -> [ts EXCEPT !.timers = tm, !.p = NoTimer]
            [] ref = "n" -> [ts EXCEPT !.timers = tm, !.n = NoTimer]
            [] ref = "l" -> [ts EXCEPT !.timers = tm, !.l = NoTimer]

LiveTimers(tm) ==
  tm["progress"] + tm["regression"] + tm["neighborSpread"]
  + tm["longDistance"]

\* The commit that follows a handler.  Every effect whose dependency array
\* changed first runs the cleanup its previous run returned (all cleanups
\* before any effect body), then its body.  oldRun/newRun are isRunning
\* before and after, oldReg/newReg isRegressing, oldGeo/newGeo geoDataLoaded
\* (countries and neighbors change only together with geoDataLoaded).
Cleanups(ts, oldRun, newRun, oldReg, newReg, oldGeo, newGeo) ==
  LET c1 == IF oldRun # newRun /\ oldRun THEN clearInterval(ts, "p") ELSE ts
      c2 == IF oldReg # newReg /\ oldReg THEN clearInterval(c1, "p") ELSE c1
      c3 == IF (oldRun # newRun \/ oldGeo # newGeo) /\ oldRun /\ oldGeo
              THEN clearInterval(c2, "n") ELSE c2
      c4 == IF (oldRun # newRun \/ oldGeo # newGeo) /\ oldRun /\ oldGeo
              THEN clearInterval(c3, "l") ELSE c3
  IN c4

Effects(ts, oldRun, newRun, oldReg, newReg, oldGeo, newGeo) ==
  LET e1 == IF oldRun # newRun /\ newRun
              THEN setInterval(ts, "p", "progress") ELSE ts
      e2 == IF oldReg # newReg /\ newReg
              THEN setInterval(e1, "p", "regression") ELSE e1
      e3 == IF (oldRun # newRun \/ oldGeo # newGeo) /\ newRun /\ newGeo
              THEN setInterval(e2, "n", "neighborSpread") ELSE e2
      e4 == IF (oldRun # newRun \/ oldGeo # newGeo) /\ newRun /\ newGeo
              THEN setInterval(e3, "l", "longDistance") ELSE e3
  IN e4

Commit(ts, newRun, newReg, newGeo) ==
  Effects(Cleanups(ts, isRunning, newRun, isRegressing, newReg,
                   geoDataLoaded, newGeo),
          isRunning, newRun, isRegressing, newReg, geoDataLoaded, newGeo)

\* the timer variables after a handler that left the timers as ts and the
\* flags as given
Committed(ts, newRun, newReg, newGeo) ==
  LET r == Commit(ts, newRun, newReg, newGeo)
  IN /\ LiveTimers(r.timers) <= MaxTimers
     /\ timers' = r.timers
     /\ progressTimerRef' = r.p
     /\ neighborSpreadTimerRef' = r.n
     /\ longDistanceTimerRef' = r.l

timerVars ==
  << timers, progressTimerRef, neighborSpreadTimerRef, longDistanceTimerRef >>

\* ------------------------------------------------------------------------
\* Initial state: the hook after its first render, geography not loaded
\* ------------------------------------------------------------------------
Init ==
  /\ totalInfectionTime \in TotalInfectionTimes
  /\ now = 1
  /\ infectedCountries = <<>>
  /\ transmissions = <<>>
  /\ connectedPairs = {}
  /\ isRunning = FALSE
  /\ isRegressing = FALSE
  /\ regressionComplete = FALSE
  /\ stats = [infected |-> 0, total |-> 0]
  /\ countries = <<>>
  /\ neighbors = <<>>
  /\ geoDataLoaded = FALSE
  /\ timers = [k \in TimerKinds |-> 0]
  /\ progressTimerRef = NoTimer
  /\ neighborSpreadTimerRef = NoTimer
  /\ longDistanceTimerRef = NoTimer
  /\ infectionStartTimeRef = Null
  /\ regressionStartTimeRef = Null
  /\ lastCall = Call("init", <<>>, FALSE)
  /\ seedName = NoName
  /\ healed = FALSE

\* Date.now() is monotone
AdvanceClock ==
  /\ \E d \in ClockSteps :
       /\ now + d <= MaxTime
       /\ now' = now + d
  /\ lastCall' = Call("clock", <<>>, FALSE)
  /\ UNCHANGED << totalInfectionTime, infectedCountries, transmissions,
                  connectedPairs, isRunning, isRegressing, regressionComplete,
                  stats, geoVars, timerVars, infectionStartTimeRef,
                  regressionStartTimeRef, historyVars >>

\* GeoJSON loading effect
LoadGeoData ==
  /\ ~geoDataLoaded
  /\ countries' = Roster
  /\ neighbors' = Adjacency
  /\ stats' = [stats EXCEPT !.total = Len(Roster)]
  /\ geoDataLoaded' = TRUE
  /\ Committed(TimerState, isRunning, isRegressing, TRUE)
  /\ lastCall' = Call("loadGeoData", <<>>, FALSE)
  /\ UNCHANGED << totalInfectionTime, now, infectedCountries, transmissions,
                  connectedPairs, isRunning, isRegressing, regressionComplete,
                  infectionStartTimeRef, regressionStartTimeRef, historyVars >>

\* ------------------------------------------------------------------------
\* startInfection
\* ------------------------------------------------------------------------
\* Array.prototype.find over a roster: the index of the first element that
\* satisfies the test, given the indices that satisfy it; 0 for undefined
FindIndex(hits) ==
  IF hits # {}
    THEN CHOOSE i \in hits : \A j \in 1..(i - 1) : j \notin hits
    ELSE 0

ExactMatches(cs, countryName) ==
  {i \in DOMAIN cs : toLowerCase(cs[i].name) = toLowerCase(countryName)}

SubstringMatches(cs, countryName) ==
  {i \in DOMAIN cs :
     includes(toLowerCase(cs[i].name), toLowerCase(countryName))}

\* faulty variant: the substring match is tried before the exact match
ResolveSeedSubstringFirst(cs, countryName) ==
  LET exact == FindIndex(ExactMatches(cs, countryName))
      sub == FindIndex(SubstringMatches(cs, countryName))
  IN IF sub # 0 THEN {sub}
     ELSE IF exact # 0 THEN {exact}
     ELSE DOMAIN cs

\* the roster indices startInfection may settle on for a seed name
ResolveSeed(cs, countryName) ==
  LET exact == FindIndex(ExactMatches(cs, countryName))
      sub == FindIndex(SubstringMatches(cs, countryName))
  IN IF exact # 0 THEN {exact}
     ELSE IF sub # 0 THEN {sub}
     ELSE DOMAIN cs

\* faulty variant: the seed waits for a transit delay like a spread target
SeedEntryDelayed(country, t) == Entry(country, 0, t + neighborTransitDelay)

\* the record startInfection creates for the seed
SeedEntry(country, t) == Entry(country, 0, t)

\* countryName.toLowerCase() on null: the first callback of countries.find
\* throws a TypeError, which leaves startInfection before any assignment
ThrowsOnSeed(cs, countryName) == countryName = NullSeed /\ Len(cs) > 0

startInfection(countryName) ==
  IF geoDataLoaded /\ ThrowsOnSeed(countries, countryName)
    THEN /\ lastCall' = Call("TypeError", countryName, FALSE)
         /\ UNCHANGED << totalInfectionTime, now, infectedCountries,
                         transmissions, connectedPairs, isRunning,
                         isRegressing, regressionComplete, stats, geoVars,
                         timerVars, infectionStartTimeRef,
                         regressionStartTimeRef, historyVars >>
    ELSE /\ lastCall' = Call("startInfection", countryName, FALSE)
         /\ IF ~geoDataLoaded \/ ResolveSeed(countries, countryName) = {}
              THEN UNCHANGED << totalInfectionTime, now, infectedCountries,
                                transmissions, connectedPairs, isRunning,
                                isRegressing, regressionComplete, stats,
                                geoVars, timerVars, infectionStartTimeRef,
                                regressionStartTimeRef, historyVars >>
              ELSE \E i \in ResolveSeed(countries, countryName) :
                     /\ connectedPairs' = {}
                     /\ infectionStartTimeRef' = now
                     /\ infectedCountries' = << SeedEntry(countries[i], now) >>
                     /\ transmissions' = <<>>
                     /\ stats' = [stats EXCEPT !.infected = 1]
                     /\ isRunning' = TRUE
                     /\ Committed(TimerState, TRUE, isRegressing, geoDataLoaded)
                     /\ seedName' = countries[i].name
                     /\ healed' = FALSE
                     /\ UNCHANGED << totalInfectionTime, now, isRegressing,
                                     regressionComplete, geoVars,
                                     regressionStartTimeRef >>

\* ------------------------------------------------------------------------
\* getCountryCentroid
\* ------------------------------------------------------------------------
\* a centroid as the pair <<lat, lon>>; the empty tuple stands for null
NoCentroid == << >>

\* faulty variant: an unknown name yields the origin instead of null
CentroidOrOrigin(cs, countryName) ==
  LET i == FindIndex({k \in DOMAIN cs : cs[k].name = countryName})
  IN IF i # 0 THEN << cs[i].centroid.lat, cs[i].centroid.lon >>
     ELSE << 0, 0 >>

\* countries.find(c => c.name === countryName)?.centroid || null
CentroidOrNull(cs, countryName) ==
  LET i == FindIndex({k \in DOMAIN cs : cs[k].name = countryName})
  IN IF i # 0 THEN << cs[i].centroid.lat, cs[i].centroid.lon >>
     ELSE NoCentroid

getCountryCentroid(countryName) ==
  /\ lastCall' = Call("getCountryCentroid", countryName,
                      CentroidOrNull(countries, countryName))
  /\ UNCHANGED << totalInfectionTime, now, infectedCountries, transmissions,
                  connectedPairs, isRunning, isRegressing, regressionComplete,
                  stats, geoVars, timerVars, infectionStartTimeRef,
                  regressionStartTimeRef, historyVars >>

\* ------------------------------------------------------------------------
\* reset
\* ------------------------------------------------------------------------
\* faulty variant: connectedPairsRef is not cleared
resetKeepingPairs ==
  /\ lastCall' = Call("reset", <<>>, FALSE)
  /\ infectedCountries' = <<>>
  /\ transmissions' = <<>>
  /\ connectedPairs' = connectedPairs
  /\ isRunning' = FALSE
  /\ isRegressing' = FALSE
  /\ regressionComplete' = FALSE
  /\ stats' = [stats EXCEPT !.infected = 0]
  /\ LET t1 == clearInterval(TimerState, "p")
         t2 == clearInterval(t1, "n")
         t3 == clearInterval(t2, "l")
     IN Committed(t3, FALSE, FALSE, geoDataLoaded)
  /\ seedName' = NoName
  /\ healed' = FALSE
  /\ UNCHANGED << totalInfectionTime, now, geoVars, infectionStartTimeRef,
                  regressionStartTimeRef >>

reset ==
  /\ lastCall' = Call("reset", <<>>, FALSE)
  /\ infectedCountries' = <<>>
  /\ transmissions' = <<>>
  /\ connectedPairs' = {}
  /\ isRunning' = FALSE
  /\ isRegressing' = FALSE
  /\ regressionComplete' = FALSE
  /\ stats' = [stats EXCEPT !.infected = 0]
  /\ LET t1 == clearInterval(TimerState, "p")
         t2 == clearInterval(t1, "n")
         t3 == clearInterval(t2, "l")
     IN Committed(t3, FALSE, FALSE, geoDataLoaded)
  /\ seedName' = NoName
  /\ healed' = FALSE
  /\ UNCHANGED << totalInfectionTime, now, geoVars, infectionStartTimeRef,
                  regressionStartTimeRef >>

\* ------------------------------------------------------------------------
\* startRegression
\* ------------------------------------------------------------------------
\* faulty variant: a fully infected world is not refused
CannotRegressOnlyWhenEmpty == Len(infectedCountries) = 0

\* the refusal test of startRegression
CannotRegress ==
  LET infectedCount == Len(infectedCountries)
  IN infectedCount = 0 \/ infectedCount >= Len(countries)

startRegression ==
  IF CannotRegress
    THEN /\ lastCall' = Call("startRegression", <<>>, FALSE)
            /\ UNCHANGED << totalInfectionTime, now, infectedCountries,
                            transmissions, connectedPairs, isRunning,
                            isRegressing, regressionComplete, stats, geoVars,
                            timerVars, infectionStartTimeRef,
                            regressionStartTimeRef, historyVars >>
    ELSE /\ lastCall' = Call("startRegression", <<>>, TRUE)
            /\ isRunning' = FALSE
            /\ regressionStartTimeRef' = now
            /\ regressionComplete' = FALSE
            /\ isRegressing' = TRUE
            /\ LET t1 == clearInterval(TimerState, "n")
                   t2 == clearInterval(t1, "l")
               IN Committed(t2, FALSE, TRUE, geoDataLoaded)
            /\ UNCHANGED << totalInfectionTime, now, infectedCountries,
                            transmissions, connectedPairs, stats, geoVars,
                            infectionStartTimeRef, historyVars >>

\* ------------------------------------------------------------------------
\* Pacing curves
\* ------------------------------------------------------------------------
\* infectionSpeed = 1 / (timePerGeneration - 3000): the divisor, in ms
timePerGeneration == totalInfectionTime \div 6

infectionSpeedDivisor == timePerGeneration - 3000

\* min(1, elapsed / totalInfectionTime) in thousandths, elapsed counted
\* from infectionStartTimeRef (0 while the ref is null)
timeRatio(t) ==
  LET elapsedTime == IF infectionStartTimeRef # Null
                       THEN t - infectionStartTimeRef ELSE 0
  IN Min(Milli, (elapsedTime * Milli) \div totalInfectionTime)

\* faulty variant: the multiplier falls from 1.5 to 0.7
speedMultiplierFalling(t) ==
  1500 - (timeRatio(t) * timeRatio(t) * 800) \div (Milli * Milli)

\* 0.7 + timeRatio^2 * 0.8, in thousandths
speedMultiplier(t) ==
  700 + (timeRatio(t) * timeRatio(t) * 800) \div (Milli * Milli)

\* faulty variant: the progress counts down with the elapsed time
newProgressCountdown(elapsed, t) ==
  LET scaled == elapsed * speedMultiplier(t)
  IN IF infectionSpeedDivisor > 0 /\ scaled >= infectionSpeedDivisor * Milli
       THEN 0
       ELSE ONE - Min(ONE, Div(scaled * (ONE \div Milli),
                               infectionSpeedDivisor))

\* Math.min(1, elapsed * infectionSpeed * speedMultiplier)
newProgress(elapsed, t) ==
  LET scaled == elapsed * speedMultiplier(t)
  IN IF infectionSpeedDivisor > 0 /\ scaled >= infectionSpeedDivisor * Milli
       THEN ONE
       ELSE Min(ONE, Div(scaled * (ONE \div Milli), infectionSpeedDivisor))

\* ------------------------------------------------------------------------
\* Progress tick (interval created by the progress effect)
\* ------------------------------------------------------------------------
\* faulty variant: a record is updated before its startTime is reached
ProgressEntryEager(country, t) ==
  IF country.progress < ONE
    THEN [country EXCEPT !.progress = newProgress(t - country.startTime, t)]
    ELSE country

ProgressEntry(country, t) ==
  IF country.progress < ONE /\ t - country.startTime >= 0
    THEN [country EXCEPT !.progress = newProgress(t - country.startTime, t)]
    ELSE country

ProgressTick ==
  /\ timers["progress"] > 0
  /\ infectedCountries' =
       [i \in DOMAIN infectedCountries |->
          ProgressEntry(infectedCountries[i], now)]
  /\ lastCall' = Call("progressTick", <<>>, FALSE)
  /\ UNCHANGED << totalInfectionTime, now, transmissions, connectedPairs,
                  isRunning, isRegressing, regressionComplete, stats,
                  geoVars, timerVars, infectionStartTimeRef,
                  regressionStartTimeRef, historyVars >>

\* ------------------------------------------------------------------------
\* Regression tick (interval created by the regression effect)
\* ------------------------------------------------------------------------
\* faulty variant: the sort is by ascending startTime
SortedIndexAscending(prev, i) ==
  Cardinality({j \in DOMAIN prev : prev[j].startTime < prev[i].startTime})
  + Cardinality({j \in 1..(i - 1) : prev[j].startTime = prev[i].startTime})

\* position of entry i after the stable sort by descending startTime
SortedIndex(prev, i) ==
  Cardinality({j \in DOMAIN prev : prev[j].startTime > prev[i].startTime})
  + Cardinality({j \in 1..(i - 1) : prev[j].startTime = prev[i].startTime})

\* faulty variant: the regression removes nothing from the progress
RegressedProgressFrozen(prev, i, t) == prev[i].progress

RegressedProgress(prev, i, t) ==
  LET elapsed == IF regressionStartTimeRef # Null
                   THEN t - regressionStartTimeRef ELSE 0
      countryDelay == SortedIndex(prev, i) * regressionStagger
      countryElapsed == Max(0, elapsed - countryDelay)
      regressAmount == (countryElapsed * ONE) \div regressionDuration
  IN Max(0, prev[i].progress - regressAmount)

\* faulty variant: a record is deleted only when its progress is below 0
RegressionUpdateKeepingZero(prev, t) ==
  SelectSeq([i \in DOMAIN prev |->
               [prev[i] EXCEPT !.progress = RegressedProgress(prev, i, t)]],
            LAMBDA c : c.progress >= 0)

RegressionUpdate(prev, t) ==
  LET kept == SelectSeq([i \in DOMAIN prev |->
                           [prev[i] EXCEPT !.progress =
                              RegressedProgress(prev, i, t)]],
                        LAMBDA c : c.progress > 0)
  IN kept

\* faulty variant: completion is tested on the map before the tick
RegressionFinishedBefore(prev, updated) == Len(prev) = 0

\* Object.keys(updated).length === 0
RegressionFinished(prev, updated) == Len(updated) = 0

RegressionTick ==
  /\ timers["regression"] > 0
  /\ LET updated == RegressionUpdate(infectedCountries, now)
         changed == updated # infectedCountries
         done == RegressionFinished(infectedCountries, updated)
     IN /\ infectedCountries' = updated
        /\ stats' = IF changed
                      THEN [stats EXCEPT !.infected = InfectedCount(updated)]
                      ELSE stats
        /\ isRegressing' = IF done THEN FALSE ELSE isRegressing
        /\ regressionComplete' = IF done THEN TRUE ELSE regressionComplete
        /\ transmissions' = IF done THEN <<>> ELSE transmissions
        /\ connectedPairs' = IF done THEN {} ELSE connectedPairs
        /\ Committed(TimerState, isRunning,
                     IF done THEN FALSE ELSE isRegressing, geoDataLoaded)
        /\ healed' = (healed \/ Len(updated) < Len(infectedCountries))
        /\ seedName' = IF done THEN NoName ELSE seedName
  /\ lastCall' = Call("regressionTick", <<>>, FALSE)
  /\ UNCHANGED << totalInfectionTime, now, isRunning, geoVars,
                  infectionStartTimeRef, regressionStartTimeRef >>

\* ------------------------------------------------------------------------
\* Neighbour spread tick (interval created by the neighbour spread effect)
\* ------------------------------------------------------------------------
\* faulty variant: the cap is maxSpreadPerInterval from the start
dynamicMaxSpreadFlat(t) == Max(1, maxSpreadPerInterval)

\* max(1, floor(1 + timeRatio^3 * (maxSpreadPerInterval - 1)))
dynamicMaxSpread(t) ==
  LET r == timeRatio(t)
  IN Max(1, 1 + (r * r * r * (maxSpreadPerInterval - 1))
                  \div (Milli * Milli * Milli))

\* faulty variant: a source without neighbours spreads to the whole roster
NeighborsOfOrRoster(sourceName) ==
  IF sourceName \in DOMAIN neighbors /\ neighbors[sourceName] # << >>
    THEN neighbors[sourceName]
    ELSE [i \in DOMAIN countries |->
            [name |-> countries[i].name, distance |-> 0]]

\* faulty variant: the entities that list the source count as its
\* neighbours too
NeighborsOfEitherWay(sourceName) ==
  (IF sourceName \in DOMAIN neighbors THEN neighbors[sourceName] ELSE <<>>)
  \o SelectSeq([i \in DOMAIN countries |->
                  [name |-> countries[i].name, distance |-> 0]],
               LAMBDA n :
                 /\ n.name \in DOMAIN neighbors
                 /\ \E k \in DOMAIN neighbors[n.name] :
                      neighbors[n.name][k].name = sourceName)

\* neighbors[sourceName] || []
NeighborsOf(sourceName) ==
  IF sourceName \in DOMAIN neighbors THEN neighbors[sourceName] ELSE <<>>

\* countries.find(c => c.name === name), 0 for undefined
CountryIndex(name) ==
  FindIndex({i \in DOMAIN countries : countries[i].name = name})

\* state of the loop over the shuffled sources
SpreadState(updated, pairs, newTransmissions) ==
  [updated |-> updated, pairs |-> pairs,
   newTransmissions |-> newTransmissions]

\* faulty variant: the neighbours are not filtered
IsOpenNeighborUnfiltered(st, sourceName, n) == TRUE

\* the filter on a source's neighbours: not infected and no existing line
IsOpenNeighbor(st, sourceName, n) ==
  /\ ~Has(st.updated, n.name)
  /\ getPairKey(sourceName, n.name) \notin st.pairs

\* faulty variant: the edge is recorded from the target to the source
NeighborTransmissionReversed(pairKey, sourceName, targetName) ==
  [id |-> pairKey, from |-> targetName, to |-> sourceName,
   isLongDistance |-> FALSE]

NeighborTransmission(pairKey, sourceName, targetName) ==
  [id |-> pairKey, from |-> sourceName, to |-> targetName,
   isLongDistance |-> FALSE]

\* faulty variant: the edge id is built from the names as given, unsorted
LongDistanceTransmissionUnsortedId(pairKey, sourceName, targetName) ==
  [id |-> sourceName \o <<"-">> \o targetName, from |-> sourceName,
   to |-> targetName, isLongDistance |-> TRUE]

LongDistanceTransmission(pairKey, sourceName, targetName) ==
  [id |-> pairKey, from |-> sourceName, to |-> targetName,
   isLongDistance |-> TRUE]

\* faulty variant: the target waits for the long-distance delay
NeighborTargetEntrySlow(targetCountry, t) ==
  Entry(targetCountry, 0, t + longDistanceTransitDelay)

\* the record created for the target of a neighbour spread
NeighborTargetEntry(targetCountry, t) ==
  Entry(targetCountry, 0, t + neighborTransitDelay)

\* the outcomes of one loop iteration for a source: one per target that
\* the random index can select, or the state unchanged
SpreadFromSource(sourceName, st, t) ==
  LET sourceNeighbors == NeighborsOf(sourceName)
      uninfected == SelectSeq(sourceNeighbors, LAMBDA n :
                      IsOpenNeighbor(st, sourceName, n))
  IN IF Len(uninfected) > 0 /\ CountryIndex(sourceName) # 0
       THEN { IF CountryIndex(uninfected[k].name) # 0
                THEN LET target == uninfected[k]
                         targetCountry == countries[CountryIndex(target.name)]
                         pairKey == getPairKey(sourceName, target.name)
                     IN SpreadState(
                          Put(st.updated,
                              NeighborTargetEntry(targetCountry, t)),
                          st.pairs \cup {pairKey},
                          Append(st.newTransmissions,
                                 NeighborTransmission(pairKey, sourceName,
                                                      target.name)))
                ELSE st
              : k \in DOMAIN uninfected }
       ELSE {st}

\* the loop "for (const sourceName of shuffledSources)": the sources not
\* yet visited are visited in any order (the shuffle), until the cap
RECURSIVE SpreadLoop(_, _, _, _)
SpreadLoop(sources, st, cap, t) ==
  IF sources = {} \/ Len(st.newTransmissions) >= cap
    THEN {st}
    ELSE UNION { UNION { SpreadLoop(sources \ {s}, o, cap, t)
                         : o \in SpreadFromSource(s, st, t) }
                 : s \in sources }

\* faulty variant: every infected entity may spread
readyToSpreadAny(prev) == Keys(prev)

\* the entities infected enough to spread
readyToSpread(prev) ==
  {prev[i].name : i \in
     {j \in DOMAIN prev : prev[j].progress >= neighborSpreadThreshold}}

NeighborSpreadOutcomes(prev, t) ==
  LET remainingCountries == Len(countries) - Len(prev)
      start == SpreadState(prev, connectedPairs, <<>>)
  IN IF remainingCountries <= 0 \/ readyToSpread(prev) = {}
       THEN {start}
       ELSE SpreadLoop(readyToSpread(prev), start, dynamicMaxSpread(t), t)

NeighborSpreadTick ==
  /\ timers["neighborSpread"] > 0
  /\ \E o \in NeighborSpreadOutcomes(infectedCountries, now) :
       /\ infectedCountries' = o.updated
       /\ connectedPairs' = o.pairs
       /\ transmissions' =
            AppendTransmissions(transmissions, o.newTransmissions)
       /\ stats' = IF Len(o.newTransmissions) > 0
                     THEN [stats EXCEPT !.infected =
                             InfectedCount(o.updated)]
                     ELSE stats
  /\ lastCall' = Call("neighborSpreadTick", <<>>, FALSE)
  /\ UNCHANGED << totalInfectionTime, now, isRunning, isRegressing,
                  regressionComplete, geoVars, timerVars,
                  infectionStartTimeRef, regressionStartTimeRef, historyVars >>

\* ------------------------------------------------------------------------
\* Long-distance tick (interval created by the long-distance effect)
\* ------------------------------------------------------------------------
\* floor(sqrt(n)) for 0 <= n <= Milli * Milli
Isqrt(n) == CHOOSE k \in 0..Milli : k * k <= n /\ n < (k + 1) * (k + 1)

\* Math.pow(timeRatio, 2.5), in thousandths
longDistanceCurve(t) ==
  LET r == timeRatio(t)
  IN (r * r * Isqrt(r * Milli)) \div (Milli * Milli)

\* longDistanceProbability * 0.2 + curve * longDistanceProbability * 1.2
effectiveProbability(t) ==
  (longDistanceProbability * 200) \div Milli
  + (longDistanceCurve(t) * longDistanceProbability * 1200)
      \div (Milli * Milli)

\* faulty variant: the threshold of the neighbour spread is used
minProgressOfNeighborSpread(t) == neighborSpreadThreshold

\* 0.85 - curve * 0.35, as a progress value
minProgress(t) ==
  (ONE * 850) \div Milli
  - (longDistanceCurve(t) * ((ONE * 350) \div Milli)) \div Milli

\* geoDistance(...) > longDistanceMinDistance, compared on the squares
geoDistanceSquared(lat1, lon1, lat2, lon2) ==
  LET dLat == lat2 - lat1
      dLon == lon2 - lon1
  IN dLat * dLat + dLon * dLon

\* faulty variant: an entity exactly at the minimum distance is far
IsFarOrEqual(c1, c2) ==
  \/ longDistanceMinDistance < 0
  \/ geoDistanceSquared(c1.lat, c1.lon, c2.lat, c2.lon)
       >= longDistanceMinDistance * longDistanceMinDistance

IsFar(c1, c2) ==
  \/ longDistanceMinDistance < 0
  \/ geoDistanceSquared(c1.lat, c1.lon, c2.lat, c2.lon)
       > longDistanceMinDistance * longDistanceMinDistance

\* faulty variant: an entity that already has a record may be a target
IsFarTargetInfected(prev, sourceName, sourceCountry, c) ==
  /\ getPairKey(sourceName, c.name) \notin connectedPairs
  /\ IsFar(sourceCountry.centroid, c.centroid)

\* the filter on the roster: no record, no existing line, far enough
IsFarTarget(prev, sourceName, sourceCountry, c) ==
  /\ ~Has(prev, c.name)
  /\ getPairKey(sourceName, c.name) \notin connectedPairs
  /\ IsFar(sourceCountry.centroid, c.centroid)

\* faulty variant: a single infected entity may jump
TooFewToJumpWhenEmpty(prev) == Len(prev) < 1

\* infectedNames.length < 2
TooFewToJump(prev) == Len(prev) < 2

LongDistanceOutcomes(prev, t) ==
  LET sources == {prev[i].name : i \in
                    {j \in DOMAIN prev : prev[j].progress >= minProgress(t)}}
      start == SpreadState(prev, connectedPairs, <<>>)
      jumps ==
        UNION {
          LET sourceCountry == countries[CountryIndex(sourceName)]
              uninfectedFar == SelectSeq(countries, LAMBDA c :
                  IsFarTarget(prev, sourceName, sourceCountry, c))
          IN IF CountryIndex(sourceName) # 0 /\ Len(uninfectedFar) > 0
               THEN { LET target == uninfectedFar[k]
                          pairKey == getPairKey(sourceName, target.name)
                      IN SpreadState(
                           Put(prev, Entry(target, 0,
                                           t + longDistanceTransitDelay)),
                           connectedPairs \cup {pairKey},
                           << LongDistanceTransmission(pairKey, sourceName,
                                                       target.name) >>)
                      : k \in DOMAIN uninfectedFar }
               ELSE {start}
          : sourceName \in sources }
  IN IF \/ TooFewToJump(prev)
        \/ Len(countries) - Len(prev) <= 0
        \/ sources = {}
       THEN {start}
       ELSE \* Math.random() > effectiveProbability returns early
            (IF effectiveProbability(t) < Milli THEN {start} ELSE {})
            \cup (IF effectiveProbability(t) >= 0 THEN jumps ELSE {})

LongDistanceTick ==
  /\ timers["longDistance"] > 0
  /\ \E o \in LongDistanceOutcomes(infectedCountries, now) :
       /\ infectedCountries' = o.updated
       /\ connectedPairs' = o.pairs
       /\ transmissions' =
            AppendTransmissions(transmissions, o.newTransmissions)
       /\ stats' = IF Len(o.newTransmissions) > 0
                     THEN [stats EXCEPT !.infected =
                             InfectedCount(o.updated)]
                     ELSE stats
  /\ lastCall' = Call("longDistanceTick", <<>>, FALSE)
  /\ UNCHANGED << totalInfectionTime, now, isRunning, isRegressing,
                  regressionComplete, geoVars, timerVars,
                  infectionStartTimeRef, regressionStartTimeRef, historyVars >>

\* ------------------------------------------------------------------------
\* Specification
\* ------------------------------------------------------------------------
Next ==
  \/ AdvanceClock
  \/ LoadGeoData
  \/ \E countryName \in Seeds : startInfection(countryName)
  \/ \E countryName \in Lookups : getCountryCentroid(countryName)
  \/ startRegression
  \/ reset
  \/ ProgressTick
  \/ RegressionTick
  \/ NeighborSpreadTick
  \/ LongDistanceTick

Spec == Init /\ [][Next]_vars

\* The hook configured with one totalInfectionTime
LiveInit == Init /\ totalInfectionTime = 180000

\* The same program under the scheduling the timers give: the clock keeps
\* advancing, and a live regression interval keeps firing.
LiveSpec ==
  /\ LiveInit
  /\ [][Next]_vars
  /\ WF_vars(AdvanceClock)
  /\ WF_vars(RegressionTick)

\* ------------------------------------------------------------------------
\* The hook mounted in CountryInfectionSystem
\* (src/src/components/infection/InfectionRoute.js)
\* ------------------------------------------------------------------------
\* The component is rendered with autoStart held true and triggerRegression
\* left at its default false; a regression is requested through the
\* imperative handle.  With autoStart true the component never calls reset
\* (the reset effect fires on a change of autoStart from true to false).

\* the startCountry prop
startCountry == << "B" >>

\* The autostart effect depends on autoStart, geoDataLoaded, isRunning and
\* isRegressing, so it re-runs after every commit that changes one of the
\* three flags; its body calls startInfection when this test holds.  The
\* test cannot hold in a state the effect has already seen: the call makes
\* isRunning true on a loaded, non-empty roster.
AutostartDue == geoDataLoaded /\ ~isRunning /\ ~isRegressing

AutostartEffect ==
  /\ AutostartDue
  /\ startInfection(startCountry)

\* ref.current.startRegression()
HandleStartRegression == startRegression

\* An effect that is due runs before any other callback.
ComponentNext ==
  \/ AutostartEffect
  \/ ~AutostartDue /\ AdvanceClock
  \/ ~AutostartDue /\ LoadGeoData
  \/ ~AutostartDue /\ HandleStartRegression
  \/ ~AutostartDue /\ ProgressTick
  \/ ~AutostartDue /\ RegressionTick
  \/ ~AutostartDue /\ NeighborSpreadTick
  \/ ~AutostartDue /\ LongDistanceTick

ComponentSpec == Init /\ [][ComponentNext]_vars

\* ------------------------------------------------------------------------
\* getPairKey on its own: the function applied to two pairs of names, some
\* of which contain the separator. The hook is idle; the pairs are held in
\* lastCall.arg and the keys in lastCall.ret.
\* ------------------------------------------------------------------------
PairKeyNames ==
  { <<"a">>, <<"b">>, <<"c">>, <<"C", "a">>,
    <<"a", "-", "b">>, <<"b", "-", "c">> }

PairKeyInit ==
  /\ totalInfectionTime = 180000
  /\ now = 1
  /\ infectedCountries = <<>>
  /\ transmissions = <<>>
  /\ connectedPairs = {}
  /\ isRunning = FALSE
  /\ isRegressing = FALSE
  /\ regressionComplete = FALSE
  /\ stats = [infected |-> 0, total |-> 0]
  /\ countries = <<>>
  /\ neighbors = <<>>
  /\ geoDataLoaded = FALSE
  /\ timers = [k \in TimerKinds |-> 0]
  /\ progressTimerRef = NoTimer
  /\ neighborSpreadTimerRef = NoTimer
  /\ longDistanceTimerRef = NoTimer
  /\ infectionStartTimeRef = Null
  /\ regressionStartTimeRef = Null
  /\ \E a, b, c, d \in PairKeyNames :
       lastCall = Call("pairs", << a, b, c, d >>, << >>)
  /\ seedName = NoName
  /\ healed = FALSE

\* getPairKey(a, b), getPairKey(b, a) and getPairKey(c, d)
GetPairKeys ==
  /\ lastCall.op = "pairs"
  /\ LET a == lastCall.arg[1]
         b == lastCall.arg[2]
         c == lastCall.arg[3]
         d == lastCall.arg[4]
     IN lastCall' = Call("getPairKey", lastCall.arg,
                         << getPairKey(a, b), getPairKey(b, a),
                            getPairKey(c, d) >>)
  /\ UNCHANGED << totalInfectionTime, now, infectedCountries, transmissions,
                  connectedPairs, isRunning, isRegressing, regressionComplete,
                  stats, geoVars, timerVars, infectionStartTimeRef,
                  regressionStartTimeRef, historyVars >>

PairKeyNext == GetPairKeys

PairKeySpec == PairKeyInit /\ [][PairKeyNext]_vars

\* ========================================================================
\* Properties
\* ========================================================================
\* the program state: everything but the clock and the history variables
progVars ==
  << totalInfectionTime, infectedCountries, transmissions, connectedPairs,
     isRunning, isRegressing, regressionComplete, stats, countries,
     neighbors, geoDataLoaded, timers, progressTimerRef,
     neighborSpreadTimerRef, longDistanceTimerRef, infectionStartTimeRef,
     regressionStartTimeRef >>

ProgressOf(m, n) == Get(m, n).progress

\* C1: every infection record's progress lies in [0,1], for any positive
\* totalInfectionTime.
C1_ProgressInUnitInterval ==
  \A i \in DOMAIN infectedCountries :
    /\ infectedCountries[i].progress >= 0
    /\ infectedCountries[i].progress <= ONE

\* C2: across a step in which an entity keeps its record (any step but a
\* startInfection or reset, which discard the map), its progress does not
\* decrease while isRegressing is false and does not increase while
\* isRegressing is true.
C2_ProgressMonotone ==
  [][ lastCall'.op \notin {"startInfection", "reset"} =>
        \A n \in Keys(infectedCountries) \cap Keys(infectedCountries') :
          /\ ~isRegressing =>
               ProgressOf(infectedCountries', n)
                 >= ProgressOf(infectedCountries, n)
          /\ isRegressing =>
               ProgressOf(infectedCountries', n)
                 <= ProgressOf(infectedCountries, n) ]_vars

\* C3: the edge log holds at most one edge per unordered pair of entities,
\* and no two edges share an id.
C3_OneEdgePerPair ==
  \A i, j \in DOMAIN transmissions :
    i # j =>
      /\ {transmissions[i].from, transmissions[i].to}
           # {transmissions[j].from, transmissions[j].to}
      /\ transmissions[i].id # transmissions[j].id

C3_Witness ==
  /\ Len(transmissions) >= 2
  /\ \E i \in DOMAIN transmissions : transmissions[i].isLongDistance
  /\ \E i \in DOMAIN transmissions : ~transmissions[i].isLongDistance

\* entities reachable from the seed along recorded edges, source to target
RECURSIVE ReachableWithin(_, _)
ReachableWithin(S, k) ==
  IF k = 0 THEN S
  ELSE ReachableWithin(
         S \cup {transmissions[i].to : i \in
                   {j \in DOMAIN transmissions : transmissions[j].from \in S}},
         k - 1)

ReachableFromSeed ==
  IF seedName = NoName THEN {} ELSE ReachableWithin({seedName}, Len(Roster))

EdgeTargets == {transmissions[i].to : i \in DOMAIN transmissions}

\* C4 (as claimed): in every reachable state an entity has a record iff it
\* is the seed or reachable from the seed along recorded edges; no non-seed
\* record lacks an edge targeting it and no edge targets an entity without
\* a record.
C4_RecordIffReachable ==
  /\ \A n \in Names : Has(infectedCountries, n) <=> n \in ReachableFromSeed
  /\ \A n \in Keys(infectedCountries) : n # seedName => n \in EdgeTargets
  /\ \A n \in EdgeTargets : Has(infectedCountries, n)

\* C4 (amended): every entity with a record is the seed or reachable from
\* the seed along recorded edges, and every non-seed record is the target
\* of an edge; the converse (the seed and every reachable entity and every
\* edge target has a record) holds as long as no regression tick has
\* deleted a record since the run began.
C4_RecordIffReachableUntilHealed ==
  /\ \A n \in Keys(infectedCountries) :
       /\ n \in ReachableFromSeed
       /\ n # seedName => n \in EdgeTargets
  /\ ~healed =>
       /\ \A n \in ReachableFromSeed : Has(infectedCountries, n)
       /\ \A n \in EdgeTargets : Has(infectedCountries, n)

C4_Witness ==
  /\ ~healed
  /\ Len(infectedCountries) = Len(Roster)
  /\ Len(transmissions) = Len(Roster) - 1

\* C5: startRegression() returns false and changes no state when the
\* number of records is 0 or equals the number of entities, and returns
\* true in every other case.
C5_RegressionRefusal ==
  [][ lastCall'.op = "startRegression" =>
        IF \/ Len(infectedCountries) = 0
           \/ Len(infectedCountries) = stats.total
          THEN /\ lastCall'.ret = FALSE
               /\ UNCHANGED progVars
          ELSE lastCall'.ret = TRUE ]_vars

C5_Witness ==
  /\ lastCall.op = "startRegression"
  /\ lastCall.ret = FALSE
  /\ Len(infectedCountries) = stats.total
  /\ stats.total > 0

\* C6: after reset() from any state the infection map, the edge log and
\* the connected pairs are empty, the three flags are false and
\* stats.infected is 0, while the loaded geography is unchanged.
C6_ResetClears ==
  [][ lastCall'.op = "reset" =>
        /\ infectedCountries' = <<>>
        /\ transmissions' = <<>>
        /\ connectedPairs' = {}
        /\ ~isRunning' /\ ~isRegressing' /\ ~regressionComplete'
        /\ stats'.infected = 0
        /\ stats'.total = stats.total
        /\ UNCHANGED geoVars ]_vars

C6_Witness ==
  /\ lastCall.op = "reset"
  /\ geoDataLoaded
  /\ stats.total = Len(Roster)
  /\ regressionStartTimeRef # Null
  /\ infectedCountries = <<>>

\* C7: isRunning and isRegressing are never both true.
C7_RunningExcludesRegressing == ~(isRunning /\ isRegressing)

Quiescent ==
  /\ infectedCountries = <<>>
  /\ ~isRunning /\ ~isRegressing /\ ~regressionComplete
  /\ LiveTimers(timers) = 0

\* C8: after reset() no interval created before it is still scheduled, and
\* the map stays empty and the flags stay false until the next
\* startInfection().
C8_NoIntervalSurvivesReset ==
  [][ /\ lastCall'.op = "reset" => Quiescent'
      /\ (Quiescent /\ lastCall'.op # "startInfection") => Quiescent' ]_vars

\* C9: on a loaded roster startInfection(seed) picks the first entity whose
\* name equals the seed ignoring case; if there is none, the first entity
\* whose lower-cased name contains the lower-cased seed; if there is none,
\* some entity of the roster.
C9_SeedPriorityChain ==
  (lastCall.op = "startInfection" /\ geoDataLoaded) =>
    LET seed == toLowerCase(lastCall.arg)
        exact == {i \in DOMAIN countries :
                    toLowerCase(countries[i].name) = seed}
        partial == {i \in DOMAIN countries :
                      includes(toLowerCase(countries[i].name), seed)}
        First(S) == CHOOSE i \in S : \A j \in S : i <= j
    IN /\ Len(infectedCountries) = 1
       /\ IF exact # {}
            THEN infectedCountries[1].name = countries[First(exact)].name
            ELSE IF partial # {}
              THEN infectedCountries[1].name = countries[First(partial)].name
              ELSE infectedCountries[1].name \in Names

\* the seed "B" equals "b" ignoring case, and is contained in the earlier "Ab"
C9_Witness ==
  /\ lastCall.op = "startInfection"
  /\ lastCall.arg = <<"B">>
  /\ geoDataLoaded
  /\ Keys(infectedCountries) = { <<"b">> }

\* C10: after a successful startInfection the map holds exactly one record,
\* for the resolved seed, with progress 0, startTime = now and entryPoint =
\* the seed's centroid; the edge log and the connected pairs are empty,
\* stats.infected is 1, the simulation clock is now and isRunning is true.
C10_StartInfectionState ==
  (lastCall.op = "startInfection" /\ geoDataLoaded) =>
    /\ Len(infectedCountries) = 1
    /\ infectedCountries[1].name = seedName
    /\ infectedCountries[1].progress = 0
    /\ infectedCountries[1].startTime = now
    /\ \E i \in DOMAIN countries :
         /\ countries[i].name = seedName
         /\ infectedCountries[1].entryPoint = countries[i].centroid
    /\ transmissions = <<>>
    /\ connectedPairs = {}
    /\ stats.infected = 1
    /\ infectionStartTimeRef = now
    /\ isRunning

\* a restart: an earlier run had already reached a regression
C10_Witness ==
  /\ lastCall.op = "startInfection"
  /\ geoDataLoaded
  /\ Len(infectedCountries) = 1
  /\ regressionStartTimeRef # Null
  /\ now > regressionStartTimeRef

\* C11: while geoDataLoaded is false every public operation is a no-op:
\* startInfection, startRegression and reset leave the whole program state
\* (map, edge log, pairs, flags, stats, timers) unchanged, startRegression
\* returns false, and getCountryCentroid returns null.
C11_NoOpBeforeLoad ==
  [][ ~geoDataLoaded =>
        /\ lastCall'.op \in {"startInfection", "startRegression", "reset",
                             "getCountryCentroid", "TypeError"}
             => UNCHANGED progVars
        /\ lastCall'.op # "TypeError"
        /\ lastCall'.op = "startRegression" => lastCall'.ret = FALSE
        /\ lastCall'.op = "getCountryCentroid" =>
             lastCall'.ret = NoCentroid ]_vars

\* a null seed before the load: startInfection returns before it reads it
C11_Witness ==
  /\ ~geoDataLoaded
  /\ now > 1
  /\ lastCall.op = "startInfection"
  /\ lastCall.arg = NullSeed
  /\ LiveTimers(timers) = 0
  /\ infectedCountries = <<>>

\* the adjacency list the spread reads for a source
ListedNeighbors(S) == IF S \in DOMAIN neighbors THEN neighbors[S] ELSE << >>

\* the neighbours of S that are uninfected and not yet connected to S
OpenTargets(S) ==
  {ListedNeighbors(S)[k].name : k \in
     {j \in DOMAIN ListedNeighbors(S) :
        /\ ~Has(infectedCountries, ListedNeighbors(S)[j].name)
        /\ getPairKey(S, ListedNeighbors(S)[j].name) \notin connectedPairs}}

\* the infected entities at or above the spread threshold
AtThreshold ==
  {infectedCountries[i].name : i \in
     {j \in DOMAIN infectedCountries :
        infectedCountries[j].progress >= neighborSpreadThreshold}}

\* the step appended edges to the log: the indices of the new edges
AppendedEdges ==
  IF /\ Len(transmissions') > Len(transmissions)
     /\ SubSeq(transmissions', 1, Len(transmissions)) = transmissions
    THEN (Len(transmissions) + 1)..Len(transmissions')
    ELSE {}

\* C12: a neighbour-spread tick in which exactly one infected entity S is
\* at or above the threshold and S has an uninfected, not-yet-connected
\* neighbour creates exactly one record, for one such neighbour T, with
\* progress 0, startTime = now + 2500 and entryPoint = T's centroid, and
\* appends exactly one edge from S to T with isLongDistance false; and no
\* tick appends an edge whose pair is already in the connected-pairs set.
C12_SingleSourceSpread ==
  [][ /\ ( /\ lastCall'.op = "neighborSpreadTick"
           /\ Cardinality(AtThreshold) = 1
           /\ \E S \in AtThreshold : OpenTargets(S) # {} )
         => \E S \in AtThreshold : \E T \in OpenTargets(S) :
              \E i \in DOMAIN countries :
                /\ countries[i].name = T
                /\ infectedCountries' =
                     Append(infectedCountries,
                            [name |-> T,
                             centroid |-> countries[i].centroid,
                             progress |-> 0,
                             startTime |-> now + 2500,
                             entryPoint |-> countries[i].centroid])
                /\ Len(transmissions') = Len(transmissions) + 1
                /\ SubSeq(transmissions', 1, Len(transmissions))
                     = transmissions
                /\ transmissions'[Len(transmissions')].from = S
                /\ transmissions'[Len(transmissions')].to = T
                /\ transmissions'[Len(transmissions')].isLongDistance = FALSE
      /\ \A e \in AppendedEdges :
           getPairKey(transmissions'[e].from, transmissions'[e].to)
             \notin connectedPairs ]_vars

C12_Witness ==
  /\ lastCall.op = "neighborSpreadTick"
  /\ Len(infectedCountries) = 2
  /\ Len(transmissions) = 1
  /\ infectedCountries[1].progress >= neighborSpreadThreshold
  /\ infectedCountries[2].progress = 0
  /\ infectedCountries[2].startTime = now + 2500
  /\ transmissions[1].to = infectedCountries[2].name
  /\ ~transmissions[1].isLongDistance

\* C13: the regression tick that empties the infection map leaves
\* isRegressing false, regressionComplete true, the edge log and the
\* connected pairs empty and stats.infected 0; a regression tick that fires
\* on the completed state (map still empty, regressionComplete still true)
\* changes no state.
C13_RegressionCompletion ==
  [][ lastCall'.op = "regressionTick" =>
        /\ (infectedCountries # <<>> /\ infectedCountries' = <<>>) =>
             /\ ~isRegressing'
             /\ regressionComplete'
             /\ transmissions' = <<>>
             /\ connectedPairs' = {}
             /\ stats'.infected = 0
        /\ (infectedCountries = <<>> /\ regressionComplete) =>
             UNCHANGED progVars ]_vars

\* the emptying tick has just fired and its commit has cleared the interval
C13_Witness ==
  /\ lastCall.op = "regressionTick"
  /\ healed
  /\ infectedCountries = <<>>
  /\ regressionComplete
  /\ ~isRegressing
  /\ stats.infected = 0
  /\ LiveTimers(timers) = 0

\* startRegression() has just returned true
RegressionStarted == lastCall.op = "startRegression" /\ lastCall.ret = TRUE

RegressionCompleted == infectedCountries = <<>> /\ regressionComplete

\* a startInfection (returning or throwing) or a reset has just intervened
Intervened == lastCall.op \in {"startInfection", "TypeError", "reset"}

\* the regression start time was set at the last instant of the modelled
\* clock, so the clock cannot advance past it
StartedAtHorizon ==
  /\ regressionStartTimeRef = now
  /\ \A d \in ClockSteps : now + d > MaxTime

\* C14: once startRegression() has returned true, if the clock keeps
\* advancing and the regression tick keeps firing and no startInfection or
\* reset intervenes, the infection map eventually becomes empty and
\* regressionComplete eventually becomes true.
C14_RegressionTerminates ==
  RegressionStarted ~> (RegressionCompleted \/ Intervened \/ StartedAtHorizon)

\* a regression that ran to completion with no operation after its start
C14_Witness ==
  /\ RegressionCompleted
  /\ healed
  /\ lastCall.op = "regressionTick"
  /\ regressionStartTimeRef # Null
  /\ now > regressionStartTimeRef
  /\ LiveTimers(timers) = 0

StartTimeOf(m, n) == Get(m, n).startTime

\* C15: regression removes entities in reverse infection order: no
\* regression tick deletes an entity's record while an entity with a
\* strictly later startTime still has a record after that tick.
C15_ReverseOrderRemoval ==
  [][ lastCall'.op = "regressionTick" =>
        \A n \in Keys(infectedCountries) \ Keys(infectedCountries') :
          \A m \in Keys(infectedCountries') :
            StartTimeOf(infectedCountries, m)
              <= StartTimeOf(infectedCountries, n) ]_vars

\* a tick has deleted the later records and the seed still has its own
C15_Witness ==
  /\ lastCall.op = "regressionTick"
  /\ healed
  /\ isRegressing
  /\ Len(transmissions) >= 2
  /\ Keys(infectedCountries) = {seedName}

\* C16 (as claimed): startInfection called with a null seed on a loaded
\* non-empty roster raises no error, and the infection starts with exactly
\* one roster entity infected.
C16_NullSeedStarts ==
  (lastCall.arg = NullSeed /\ geoDataLoaded /\ Len(countries) > 0) =>
    /\ lastCall.op = "startInfection"
    /\ Len(infectedCountries) = 1
    /\ infectedCountries[1].name \in Names
    /\ isRunning

\* no neighbour spread is possible: every entity is infected, or no entity
\* at or above the threshold has an uninfected, not-yet-connected neighbour
NoNeighborPair ==
  \/ Len(infectedCountries) >= Len(countries)
  \/ \A S \in AtThreshold : OpenTargets(S) = {}

\* the entities a long-distance jump from S may reach: uninfected, not yet
\* connected to S and farther than longDistanceMinDistance
FarTargets(S) ==
  {countries[k].name : k \in
     {j \in DOMAIN countries :
        /\ ~Has(infectedCountries, countries[j].name)
        /\ getPairKey(S, countries[j].name) \notin connectedPairs
        /\ \E i \in DOMAIN countries :
             /\ countries[i].name = S
             /\ (countries[j].centroid.lat - countries[i].centroid.lat)
                  * (countries[j].centroid.lat - countries[i].centroid.lat)
                + (countries[j].centroid.lon - countries[i].centroid.lon)
                  * (countries[j].centroid.lon - countries[i].centroid.lon)
                > longDistanceMinDistance * longDistanceMinDistance}}

\* the infected entities at or above the long-distance threshold
AtLongDistanceThreshold ==
  {infectedCountries[i].name : i \in
     {j \in DOMAIN infectedCountries :
        infectedCountries[j].progress >= minProgress(now)}}

\* no long-distance jump is possible: fewer than two entities or every
\* entity infected, or no entity at or above the threshold has a far target
NoFarPair ==
  \/ Len(infectedCountries) < 2
  \/ Len(infectedCountries) >= Len(countries)
  \/ \A S \in AtLongDistanceThreshold : FarTargets(S) = {}

\* C17: a neighbour-spread or long-distance tick that finds no eligible
\* source/target pair leaves the infection map, the edge log, the
\* connected-pairs set and stats unchanged (and raises no error).
C17_EmptyCandidateNoOp ==
  [][ /\ (lastCall'.op = "neighborSpreadTick" /\ NoNeighborPair) =>
           UNCHANGED << infectedCountries, transmissions, connectedPairs,
                        stats >>
      /\ (lastCall'.op = "longDistanceTick" /\ NoFarPair) =>
           UNCHANGED << infectedCountries, transmissions, connectedPairs,
                        stats >>
      /\ lastCall'.op \in {"neighborSpreadTick", "longDistanceTick"} =>
           UNCHANGED << isRunning, isRegressing, regressionComplete,
                        timerVars >> ]_vars

\* a tick has fired for a single source that is above the threshold and
\* has an empty adjacency list, while other entities are still uninfected
C17_Witness ==
  /\ lastCall.op = "neighborSpreadTick"
  /\ Len(infectedCountries) = 1
  /\ Len(countries) > 1
  /\ infectedCountries[1].progress >= neighborSpreadThreshold
  /\ ListedNeighbors(infectedCountries[1].name) = << >>
  /\ transmissions = <<>>

\* min(1, elapsed / totalInfectionTime) of the run, in thousandths
RunRatio ==
  IF infectionStartTimeRef = Null THEN 0
  ELSE Min(1000, ((now - infectionStartTimeRef) * 1000)
                   \div totalInfectionTime)

\* max(1, floor(1 + ratio^3 * (maxSpreadPerInterval - 1)))
SpreadCap ==
  Max(1, 1 + (RunRatio * RunRatio * RunRatio * (maxSpreadPerInterval - 1))
               \div 1000000000)

\* C18: one neighbour-spread tick creates at most cap new records, with
\* cap = max(1, floor(1 + ratio^3 * (maxSpreadPerInterval - 1))) and
\* ratio = min(1, elapsed / totalInfectionTime), so that
\* 1 <= cap <= max(1, maxSpreadPerInterval); and each source infects at most
\* one target within a single tick.
C18_FanOutCap ==
  [][ lastCall'.op = "neighborSpreadTick" =>
        /\ SpreadCap >= 1
        /\ SpreadCap <= Max(1, maxSpreadPerInterval)
        /\ Len(infectedCountries') - Len(infectedCountries) <= SpreadCap
        /\ Len(transmissions') - Len(transmissions)
             = Len(infectedCountries') - Len(infectedCountries)
        /\ \A e, f \in AppendedEdges :
             e # f => transmissions'[e].from # transmissions'[f].from ]_vars

\* a tick with cap 2 has just infected two entities from two sources
C18_Witness ==
  /\ lastCall.op = "neighborSpreadTick"
  /\ SpreadCap = 2
  /\ Len(infectedCountries) = 4
  /\ infectedCountries[3].startTime = now + 2500
  /\ infectedCountries[4].startTime = now + 2500
  /\ Len(transmissions) = 3
  /\ transmissions[2].from # transmissions[3].from

\* C19: every edge with isLongDistance false is appended by a
\* neighbour-spread tick from a source whose recorded progress at the start
\* of that tick was at or above neighborSpreadThreshold; with a threshold
\* above 0, an entity that is still pending (progress 0, startTime in the
\* future) or that was infected earlier in the same tick is never the
\* source of a neighbour edge.
C19_SourceAtThreshold ==
  [][ \A e \in AppendedEdges :
        ~transmissions'[e].isLongDistance =>
          /\ lastCall'.op = "neighborSpreadTick"
          /\ Has(infectedCountries, transmissions'[e].from)
          /\ ProgressOf(infectedCountries, transmissions'[e].from)
               >= neighborSpreadThreshold
          /\ neighborSpreadThreshold > 0 =>
               ~( /\ ProgressOf(infectedCountries, transmissions'[e].from) = 0
                  /\ StartTimeOf(infectedCountries, transmissions'[e].from)
                       > now ) ]_vars

\* a tick has spread from the seed a second time while the first target,
\* still pending, had an uninfected neighbour of its own
C19_Witness ==
  /\ lastCall.op = "neighborSpreadTick"
  /\ Len(transmissions) = 2
  /\ Len(infectedCountries) = 3
  /\ transmissions[1].from = seedName
  /\ transmissions[2].from = seedName
  /\ ~transmissions[2].isLongDistance
  /\ infectedCountries[2].progress = 0
  /\ infectedCountries[2].startTime > now
  /\ OpenTargets(infectedCountries[2].name) # {}

\* the edges of the log form a tree rooted at the seed over the records
EdgesFormTree ==
  /\ Len(transmissions) = Len(infectedCountries) - 1
  /\ seedName \notin EdgeTargets
  /\ \A n \in Keys(infectedCountries) :
       n # seedName =>
         Cardinality({i \in DOMAIN transmissions : transmissions[i].to = n})
           = 1
  /\ \A i \in DOMAIN transmissions :
       \/ transmissions[i].from = seedName
       \/ \E j \in 1..(i - 1) : transmissions[j].to = transmissions[i].from

\* C20 (as claimed): during forward spread (isRunning), in every reachable
\* state the number of edges equals the number of records minus one, the
\* seed is the target of no edge and every other infected entity is the
\* target of exactly one edge whose source already had a record when the
\* edge was created.
C20_EdgesFormTree == isRunning => EdgesFormTree

\* C21: in every reachable state stats.infected equals the number of
\* records in the infection map and never exceeds stats.total (the number
\* of loaded entities), and every record's key is the name of a loaded
\* entity.
C21_StatsMatchMap ==
  /\ stats.infected = Len(infectedCountries)
  /\ stats.infected <= stats.total
  /\ stats.total = Len(countries)
  /\ \A n \in Keys(infectedCountries) :
       \E i \in DOMAIN countries : countries[i].name = n

\* a regression tick has deleted some records and kept others
C21_Witness ==
  /\ lastCall.op = "regressionTick"
  /\ healed
  /\ Len(infectedCountries) >= 1
  /\ Len(infectedCountries) < Len(transmissions) + 1
  /\ stats.infected = Len(infectedCountries)

\* C22 (as claimed): whenever regressionComplete is true the infection map
\* is empty and isRunning is false (so a startInfection after a completed
\* regression lowers regressionComplete).
C22_CompleteMeansIdle ==
  regressionComplete => (infectedCountries = <<>> /\ ~isRunning)

\* C23 (as claimed): in CountryInfectionSystem with autoStart held true,
\* once a regression has completed (map empty, regressionComplete true) the
\* component starts no new infection: the infection map stays empty.
C23_NoRestartAfterCompletion ==
  [][ (regressionComplete /\ infectedCountries = <<>>) =>
        infectedCountries' = <<>> ]_vars

C25_RegressionLinearInTime ==
  [][ ( /\ lastCall.op = "regressionTick"
        /\ lastCall'.op = "regressionTick"
        /\ now' = now ) =>
        infectedCountries' = infectedCountries ]_vars

\* a record whose startTime lies in the future is at progress 0
PendingAtZero(m, t) ==
  \A i \in DOMAIN m : t < m[i].startTime => m[i].progress = 0

\* C26: a progress tick leaves every pending record (now < startTime) at
\* progress 0 and unchanged; and a record's progress is greater than 0 only
\* if its startTime has been reached at a progress tick: pending records are
\* at progress 0 in every state, and progress becomes positive only in a
\* progress tick that fires at or after the record's startTime.
C26_PendingUntouched ==
  [][ /\ PendingAtZero(infectedCountries, now)
      /\ PendingAtZero(infectedCountries', now')
      /\ lastCall'.op = "progressTick" =>
           /\ Len(infectedCountries') = Len(infectedCountries)
           /\ \A i \in DOMAIN infectedCountries :
                now < infectedCountries[i].startTime =>
                  infectedCountries'[i] = infectedCountries[i]
      /\ \A n \in Keys(infectedCountries') :
           ProgressOf(infectedCountries', n) > 0 =>
             \/ /\ Has(infectedCountries, n)
                /\ ProgressOf(infectedCountries, n) > 0
             \/ /\ lastCall'.op = "progressTick"
                /\ Has(infectedCountries, n)
                /\ StartTimeOf(infectedCountries, n) <= now ]_vars

\* a progress tick has fired while one record was growing and another was
\* still pending
C26_Witness ==
  /\ lastCall.op = "progressTick"
  /\ \E i, j \in DOMAIN infectedCountries :
       /\ infectedCountries[i].progress > 0
       /\ infectedCountries[i].progress < ONE
       /\ infectedCountries[j].startTime > now
       /\ infectedCountries[j].progress = 0

\* the stage of a record: 1 not yet growing, 2 growing, 3 saturated
Stage(rec) ==
  IF rec.progress >= ONE THEN 3 ELSE IF rec.progress > 0 THEN 2 ELSE 1

\* C27: outside reset, startInfection and the regression tick every entity
\* only moves forward: an infected entity keeps its record, its stage
\* (pending, growing, saturated) never goes back, so a progress that has
\* become positive does not return to 0, and a record at progress 1 is not
\* modified by a progress, neighbour-spread or long-distance tick.
C27_ForwardOnly ==
  [][ lastCall'.op \notin {"reset", "startInfection", "regressionTick"} =>
        \A n \in Keys(infectedCountries) :
          /\ Has(infectedCountries', n)
          /\ Stage(Get(infectedCountries', n))
               >= Stage(Get(infectedCountries, n))
          /\ ProgressOf(infectedCountries, n) > 0 =>
               ProgressOf(infectedCountries', n) > 0
          /\ ProgressOf(infectedCountries, n) = ONE =>
               Get(infectedCountries', n) = Get(infectedCountries, n) ]_vars

\* a progress tick has fired on a map that holds a saturated record and a
\* pending one, during a run that no regression has touched
C27_Witness ==
  /\ lastCall.op = "progressTick"
  /\ isRunning
  /\ ~isRegressing
  /\ ~healed
  /\ \E i, j \in DOMAIN infectedCountries :
       /\ infectedCountries[i].progress = ONE
       /\ infectedCountries[j].progress = 0
       /\ infectedCountries[j].startTime > now

\* C28: every long-distance tick that changes the map infects exactly one
\* entity T that had no record, lies farther than longDistanceMinDistance
\* from the source S and whose pair with S was not connected; it creates
\* T's record with progress 0, startTime = now + 4000 and entryPoint = T's
\* centroid and appends exactly one edge from S to T with isLongDistance
\* true (a tick that leaves the map alone appends nothing); and no edge
\* appended by a neighbour-spread tick has isLongDistance true.
C28_LongDistanceJump ==
  [][ /\ lastCall'.op = "longDistanceTick" =>
           IF infectedCountries' = infectedCountries
             THEN /\ transmissions' = transmissions
                  /\ connectedPairs' = connectedPairs
             ELSE \E S \in Keys(infectedCountries) : \E T \in FarTargets(S) :
                    \E i \in DOMAIN countries :
                      /\ countries[i].name = T
                      /\ ~Has(infectedCountries, T)
                      /\ getPairKey(S, T) \notin connectedPairs
                      /\ infectedCountries' =
                           Append(infectedCountries,
                                  [name |-> T,
                                   centroid |-> countries[i].centroid,
                                   progress |-> 0,
                                   startTime |-> now + 4000,
                                   entryPoint |-> countries[i].centroid])
                      /\ transmissions' =
                           Append(transmissions,
                                  [id |-> getPairKey(S, T), from |-> S,
                                   to |-> T, isLongDistance |-> TRUE])
      /\ lastCall'.op = "neighborSpreadTick" =>
           \A e \in AppendedEdges : ~transmissions'[e].isLongDistance ]_vars

\* a long-distance tick has just created the newest record and edge
C28_Witness ==
  /\ lastCall.op = "longDistanceTick"
  /\ Len(infectedCountries) >= 3
  /\ Len(transmissions) = Len(infectedCountries) - 1
  /\ transmissions[Len(transmissions)].isLongDistance
  /\ ~transmissions[1].isLongDistance
  /\ transmissions[Len(transmissions)].to
       = infectedCountries[Len(infectedCountries)].name
  /\ infectedCountries[Len(infectedCountries)].startTime = now + 4000
  /\ infectedCountries[Len(infectedCountries)].progress = 0

\* C29: a long-distance tick changes nothing when fewer than 2 entities are
\* infected or when every entity is already infected; consequently the
\* first infection after the seed is created by the neighbour-spread tick:
\* a second record is added to a one-record map only by that tick, and the
\* first edge of the log is never a long-distance edge.
C29_NoJumpFromLoneSeed ==
  [][ /\ ( /\ lastCall'.op = "longDistanceTick"
           /\ \/ Len(infectedCountries) < 2
              \/ Len(infectedCountries) >= Len(countries) )
         => UNCHANGED progVars
      /\ (Len(infectedCountries) = 1 /\ Len(infectedCountries') > 1) =>
           lastCall'.op = "neighborSpreadTick"
      /\ Len(transmissions') > 0 => ~transmissions'[1].isLongDistance ]_vars

\* a long-distance tick has fired on a lone saturated seed that has a far,
\* unconnected, uninfected entity to jump to
C29_Witness ==
  /\ lastCall.op = "longDistanceTick"
  /\ isRunning
  /\ Len(infectedCountries) = 1
  /\ infectedCountries[1].progress = ONE
  /\ FarTargets(infectedCountries[1].name) # {}
  /\ transmissions = <<>>

\* floor(sqrt(n)) by bisection, for lo * lo <= n < (hi + 1) * (hi + 1)
RECURSIVE SqrtBetween(_, _, _)
SqrtBetween(n, lo, hi) ==
  IF lo >= hi THEN lo
  ELSE LET mid == (lo + hi + 1) \div 2
       IN IF mid * mid <= n THEN SqrtBetween(n, mid, hi)
          ELSE SqrtBetween(n, lo, mid - 1)

\* 0.85 - 0.35 * ratio^2.5 as a progress value, for a ratio in thousandths
ThresholdAt(ratio) ==
  17000 - (((ratio * ratio * SqrtBetween(ratio * 1000, 0, 1000))
              \div 1000000) * 7000) \div 1000

JumpThreshold == ThresholdAt(RunRatio)

\* C30: the source of every long-distance edge had, at the tick that
\* created the edge, progress at or above minProgress = 0.85 - 0.35 *
\* ratio^2.5 with ratio = min(1, elapsed / totalInfectionTime); the
\* threshold stays within [0.5, 0.85] and does not increase during a run
\* (from one startInfection to the next), so an entity with progress below
\* 0.5 never originates a long-distance jump.
C30_JumpSourceAtThreshold ==
  [][ LET threshold == JumpThreshold
      IN /\ \A e \in AppendedEdges :
              transmissions'[e].isLongDistance =>
                /\ lastCall'.op = "longDistanceTick"
                /\ Has(infectedCountries, transmissions'[e].from)
                /\ ProgressOf(infectedCountries, transmissions'[e].from)
                     >= threshold
                /\ ProgressOf(infectedCountries, transmissions'[e].from)
                     >= ONE \div 2
         /\ threshold >= ONE \div 2
         /\ threshold <= (ONE * 85) \div 100
         /\ (lastCall'.op # "startInfection" /\ RunRatio' # RunRatio) =>
              /\ RunRatio' > RunRatio
              /\ JumpThreshold' <= threshold ]_vars

\* a jump has just been made after the threshold had come down from 0.85
C30_Witness ==
  /\ lastCall.op = "longDistanceTick"
  /\ Len(transmissions) >= 2
  /\ transmissions[Len(transmissions)].isLongDistance
  /\ infectedCountries[Len(infectedCountries)].startTime = now + 4000
  /\ JumpThreshold < (ONE * 85) \div 100
  /\ ProgressOf(infectedCountries, transmissions[Len(transmissions)].from)
       >= JumpThreshold

\* the names in the adjacency list of S
ListedNames(S) ==
  {ListedNeighbors(S)[k].name : k \in DOMAIN ListedNeighbors(S)}

\* C31: every edge with isLongDistance false goes from a source S to a
\* target T that appears in S's own adjacency list; the reverse entry is
\* not consulted, so where T lists S but S does not list T no neighbour
\* edge goes from S to T.
C31_OwnListOnly ==
  [][ \A e \in AppendedEdges :
        ~transmissions'[e].isLongDistance =>
          /\ transmissions'[e].to \in ListedNames(transmissions'[e].from)
          /\ ~( /\ transmissions'[e].from
                     \in ListedNames(transmissions'[e].to)
                /\ transmissions'[e].to
                     \notin ListedNames(transmissions'[e].from) ) ]_vars

\* a neighbour-spread tick has just infected an entity that does not list
\* its source, from a source that lists it
C31_Witness ==
  /\ lastCall.op = "neighborSpreadTick"
  /\ Len(transmissions) >= 1
  /\ ~transmissions[Len(transmissions)].isLongDistance
  /\ transmissions[Len(transmissions)].to
       \in ListedNames(transmissions[Len(transmissions)].from)
  /\ transmissions[Len(transmissions)].from
       \notin ListedNames(transmissions[Len(transmissions)].to)
  /\ infectedCountries[Len(infectedCountries)].name
       = transmissions[Len(transmissions)].to
  /\ infectedCountries[Len(infectedCountries)].startTime = now + 2500

\* the ids of the edges in the log
EdgeIds == {transmissions[i].id : i \in DOMAIN transmissions}

\* C32: in every reachable state the connected-pairs set is exactly the
\* set of pair keys (ids) of the edges in the edge log, each id being the
\* pair key of its edge's endpoints.
C32_PairsMatchEdges ==
  /\ connectedPairs = EdgeIds
  /\ \A i \in DOMAIN transmissions :
       transmissions[i].id
         = getPairKey(transmissions[i].from, transmissions[i].to)

\* the log holds a neighbour edge and a long-distance edge whose source
\* sorts after its target, and a regression has since deleted a record
C32_Witness ==
  /\ healed
  /\ Len(infectedCountries) >= 1
  /\ Cardinality(connectedPairs) >= 2
  /\ \E i \in DOMAIN transmissions :
       /\ transmissions[i].isLongDistance
       /\ StrLess(transmissions[i].to, transmissions[i].from)

\* C33: after every regression tick every remaining record has progress
\* strictly greater than 0: the tick adds no record, never raises a
\* progress, and deletes in that same tick every record that was at or
\* below 0, so the records left are those of entities not yet fully healed.
C33_HealedRecordsDeleted ==
  [][ lastCall'.op = "regressionTick" =>
        /\ \A i \in DOMAIN infectedCountries' :
             infectedCountries'[i].progress > 0
        /\ Keys(infectedCountries') \subseteq Keys(infectedCountries)
        /\ \A n \in Keys(infectedCountries) :
             /\ ProgressOf(infectedCountries, n) <= 0 =>
                  ~Has(infectedCountries', n)
             /\ Has(infectedCountries', n) =>
                  ProgressOf(infectedCountries', n)
                    <= ProgressOf(infectedCountries, n) ]_vars

\* a regression tick has just deleted a record that was still pending and
\* kept a partly healed one
C33_Witness ==
  /\ lastCall.op = "regressionTick"
  /\ isRegressing
  /\ ~isRunning
  /\ Len(transmissions) = 1
  /\ Keys(infectedCountries) = {transmissions[1].from}
  /\ infectedCountries[1].progress > 0
  /\ infectedCountries[1].progress < ONE

\* the step clears the edge log: a startInfection, a reset, or the
\* regression tick that leaves the map empty
ClearingStep ==
  \/ lastCall'.op \in {"startInfection", "reset"}
  \/ lastCall'.op = "regressionTick" /\ infectedCountries' = <<>>

\* C34: the edge log is append-only between clearing events: in every step
\* other than a startInfection, a reset or the completion of a regression
\* the old log is a prefix of the new one, so no edge is removed, modified
\* or reordered, including edges whose endpoints a regression has healed.
C34_EdgeLogAppendOnly ==
  [][ ~ClearingStep =>
        /\ Len(transmissions') >= Len(transmissions)
        /\ SubSeq(transmissions', 1, Len(transmissions)) = transmissions ]_vars

\* a regression tick has deleted the target of an edge and kept the log
C34_Witness ==
  /\ lastCall.op = "regressionTick"
  /\ isRegressing
  /\ Len(infectedCountries) >= 1
  /\ Len(transmissions) >= 2
  /\ \E i \in DOMAIN transmissions :
       ~Has(infectedCountries, transmissions[i].to)
  /\ \E i \in DOMAIN transmissions :
       Has(infectedCountries, transmissions[i].to)

\* C35 (as claimed): after every forward progress tick, progress is ordered
\* opposite to start time: for any two records A and B with
\* startTime(A) <= startTime(B), progress(A) >= progress(B).
C35_ProgressOrderedByStart ==
  [][ lastCall'.op = "progressTick" =>
        \A i, j \in DOMAIN infectedCountries' :
          infectedCountries'[i].startTime <= infectedCountries'[j].startTime
            => infectedCountries'[i].progress
                 >= infectedCountries'[j].progress ]_vars

\* two begun records with different start times, the older one further
\* along, right after a progress tick
C35_Witness ==
  /\ lastCall.op = "progressTick"
  /\ \E i, j \in DOMAIN infectedCountries :
       /\ infectedCountries[i].startTime < infectedCountries[j].startTime
       /\ infectedCountries[j].startTime < now
       /\ infectedCountries[i].progress > infectedCountries[j].progress
       /\ infectedCountries[j].progress > 0

\* C36 (as claimed): startRegression called while isRegressing is already
\* true does not move the regression start time.
C36_RepeatKeepsStartTime ==
  [][ (isRegressing /\ lastCall'.op = "startRegression")
        => regressionStartTimeRef' = regressionStartTimeRef ]_vars

\* C37 (as claimed): the pair key is order-independent and collision-free:
\* for all names a, b, c, d, separator included, getPairKey(a, b) =
\* getPairKey(b, a), and getPairKey(a, b) = getPairKey(c, d) only if
\* {a, b} = {c, d}.
C37_PairKeyInjective ==
  lastCall.op = "getPairKey" =>
    /\ lastCall.ret[1] = lastCall.ret[2]
    /\ lastCall.ret[1] = lastCall.ret[3]
         => {lastCall.arg[1], lastCall.arg[2]}
              = {lastCall.arg[3], lastCall.arg[4]}

\* elapsed times of a run at which the multiplier is sampled, together with
\* the elapsed time of the current state
ElapsedSamples ==
  { 0, 1, 1000, 6000, 10000, 11999, 12000, 20000, 24000, 36000, 72000,
    100000, 179999, 180000, 200000 }
  \cup (IF infectionStartTimeRef # Null
          THEN {now - infectionStartTimeRef} ELSE {})

\* C38: the speed multiplier of the progress tick is a non-decreasing
\* function of the run's elapsed time, is 0.7 at the start of the run, never
\* exceeds 1.5, and is 1.5 once the elapsed time has reached
\* totalInfectionTime.
C38_SpeedMultiplierShape ==
  /\ speedMultiplier(now) >= 700
  /\ speedMultiplier(now) <= 1500
  /\ infectionStartTimeRef # Null =>
       /\ speedMultiplier(infectionStartTimeRef) = 700
       /\ \A e \in ElapsedSamples :
            /\ speedMultiplier(infectionStartTimeRef + e) <= 1500
            /\ e >= totalInfectionTime
                 => speedMultiplier(infectionStartTimeRef + e) = 1500
       /\ \A e1, e2 \in ElapsedSamples :
            e1 <= e2 => speedMultiplier(infectionStartTimeRef + e1)
                          <= speedMultiplier(infectionStartTimeRef + e2)

\* a progress tick of a live run whose elapsed time has passed
\* totalInfectionTime, the multiplier having been between 0.7 and 1.5
\* 10000 ms earlier
C38_Witness ==
  /\ lastCall.op = "progressTick"
  /\ isRunning
  /\ infectionStartTimeRef # Null
  /\ now - infectionStartTimeRef >= totalInfectionTime
  /\ speedMultiplier(now) = 1500
  /\ speedMultiplier(now - 10000) > 700
  /\ speedMultiplier(now - 10000) < 1500

====
